---- MODULE Spec2Model ----
(***************************************************************************)
(* borb, TextField (borb/pdf/canvas/layout/forms/text_field.py): the form  *)
(* field widget of a PDF page, its lazy synthesis into the document's      *)
(* object graph and its re-layout.                                         *)
(*                                                                         *)
(* The object graph is a heap of nodes; a node's identity is its index in  *)
(* the heap.  Dictionary, Stream and List objects are nodes; Name, String, *)
(* Decimal and Boolean objects are immutable and are modelled as values.   *)
(* Lengths are counted in tenths of a point, so that font_size * 1.2 is a  *)
(* whole number for the font sizes used; Decimal(1.2) is taken at that     *)
(* resolution (the binary float 1.2 is 4.4e-17 below 6/5).                 *)
(***************************************************************************)
EXTENDS Integers, Sequences, FiniteSets, TLC

VARIABLES heap, field, synth, deferred, last

vars == <<heap, field, synth, deferred, last>>

(***************************************************************************)
(* Bounds of the model.                                                    *)
(***************************************************************************)
MaxFields == 2
MaxDocPages == 2

Fields == 1 .. MaxFields

\* a length of n points
Pt(n) == 10 * n

None == 0

(***************************************************************************)
(* Values (borb.io.read.types Name, String, Decimal, Boolean) and          *)
(* references to nodes.  A value is a record of one shape: k its type, n   *)
(* its number, s its text, a the arguments of a formatted string.          *)
(***************************************************************************)
Ref(i) == [k |-> "ref", n |-> i, s |-> "", a |-> <<>>]
bDecimal(x) == [k |-> "num", n |-> x, s |-> "", a |-> <<>>]
Name(s) == [k |-> "name", n |-> 0, s |-> s, a |-> <<>>]
String(s) == [k |-> "str", n |-> 0, s |-> s, a |-> <<>>]
Boolean(b) == [k |-> "bool", n |-> IF b THEN 1 ELSE 0, s |-> "", a |-> <<>>]
\* "%s%d" % (s, i) as a Name
NameN(s, i) == [k |-> "name", n |-> i, s |-> s, a |-> <<>>]
\* fmt % args as a String
StringF(fmt, args) == [k |-> "str", n |-> 0, s |-> fmt, a |-> args]
\* a bytes object: a is the sequence of its bytes
Bytes(b) == [k |-> "bytes", n |-> 0, s |-> "", a |-> b]

(***************************************************************************)
(* Nodes: d the entries of a Dictionary or Stream, l the items of a List.  *)
(***************************************************************************)
EmptyDict == [key \in {} |-> Ref(0)]

Dictionary == [kind |-> "dict", unique |-> FALSE, inline |-> FALSE,
               parent |-> None, d |-> EmptyDict, l |-> <<>>]
Stream == [Dictionary EXCEPT !.kind = "stream"]
List == [Dictionary EXCEPT !.kind = "list"]

set_is_unique(node, b) == [node EXCEPT !.unique = b]
set_is_inline(node, b) == [node EXCEPT !.inline = b]
set_parent(node, p) == [node EXCEPT !.parent = p]

\* key in obj
Has(h, i, key) == key \in DOMAIN h[i].d
\* obj[key]
Get(h, i, key) == h[i].d[key]
\* obj[key] = v
SetItem(h, i, key, v) == [h EXCEPT ![i].d = (key :> v) @@ @]
\* obj.append(v)
AppendItem(h, i, v) == [h EXCEPT ![i].l = Append(@, v)]
\* obj[j] = v on a List (Python indexes from 0)
SetIndex(h, i, j, v) == [h EXCEPT ![i].l[j + 1] = v]
\* a freshly constructed object: its identity is the next index of the heap
New(h, node) == Append(h, node)
NewId(h) == Len(h) + 1
\* a Dictionary built from entries
WithEntries(node, entries) == [node EXCEPT !.d = entries @@ @]

\* the element of a set of one.  A statement's result is named by x \in {e}:
\* The({F(x) : x \in {e}}) is F at the value of e, computed once
The(S) == CHOOSE r \in S : TRUE

(***************************************************************************)
(* The object graph the layout passes run on: one document with a          *)
(* cross-reference table, trailer and catalog and MaxDocPages pages; a     *)
(* page that belongs to no document; and a page below a root that has an   *)
(* XRef without Trailer.  The first page of the document is blank; every   *)
(* other page already has a font (F1, Courier) and a link annotation.      *)
(***************************************************************************)
DocumentId == 1
XRefId == 2
TrailerId == 3
CatalogId == 4
LoosePage == 5
BareRootId == 6
BareXRefId == 7
BarePage == 8

\* the nodes of the i-th page of the document: the page, then (i > 1) its
\* Resources, Font dictionary, font, Annots list and link annotation
DocPage(i) == IF i = 1 THEN 9 ELSE 10 + (i - 2) * 6

DocPages == {DocPage(i) : i \in 1 .. MaxDocPages}
Pages == DocPages \cup {LoosePage, BarePage}

StandardType1Font(name) ==
    WithEntries(Dictionary, [Type |-> Name("Font"), Subtype |-> Name("Type1"),
                             BaseFont |-> Name(name)])

Page == WithEntries(Dictionary, [Type |-> Name("Page")])

FixedNodes ==
    << WithEntries(Dictionary, [XRef |-> Ref(XRefId)]),
       set_parent(WithEntries(Dictionary, [Trailer |-> Ref(TrailerId)]), DocumentId),
       set_parent(WithEntries(Dictionary, [Root |-> Ref(CatalogId)]), XRefId),
       set_parent(WithEntries(Dictionary, [Type |-> Name("Catalog")]), TrailerId),
       Page,
       WithEntries(Dictionary, [XRef |-> Ref(BareXRefId)]),
       set_parent(Dictionary, BareRootId),
       set_parent(Page, BareRootId),
       set_parent(Page, CatalogId) >>

UsedPageNodes(i) ==
    LET p == DocPage(i)
    IN  << set_parent(WithEntries(Page, [Resources |-> Ref(p + 1),
                                         Annots |-> Ref(p + 4)]), CatalogId),
           set_parent(WithEntries(Dictionary, [Font |-> Ref(p + 2)]), p),
           WithEntries(Dictionary, [F1 |-> Ref(p + 3)]),
           StandardType1Font("Courier"),
           [List EXCEPT !.l = <<Ref(p + 5)>>],
           WithEntries(Dictionary, [Type |-> Name("Annot"), Subtype |-> Name("Link"),
                                    P |-> Ref(p)]) >>

RECURSIVE UsedPages(_)
UsedPages(i) == IF i < 2 THEN <<>> ELSE UsedPages(i - 1) \o UsedPageNodes(i)

InitHeap == FixedNodes \o UsedPages(MaxDocPages)

\* page.get_root(): the top of the chain of parents
RECURSIVE get_root(_, _)
get_root(h, i) == IF h[i].parent = None THEN i ELSE get_root(h, h[i].parent)

(***************************************************************************)
(* FormField._get_font_resource_name(font, page): the name under which     *)
(* the font is registered in page["Resources"]["Font"], registering it     *)
(* (and creating the dictionaries) when it is not there yet.               *)
(***************************************************************************)
FontKeys == <<"F1", "F2", "F3", "F4", "F5", "F6">>

\* page["Resources"], made when absent
ensure_resources(h, page) ==
    IF Has(h, page, "Resources") THEN h
    ELSE SetItem(New(h, set_parent(Dictionary, page)), page, "Resources", Ref(NewId(h)))

\* page["Resources"]["Font"], made when absent
ensure_font_dictionary(h, page) ==
    LET res == Get(h, page, "Resources").n
    IN  IF Has(h, res, "Font") THEN h
        ELSE SetItem(New(h, Dictionary), res, "Font", Ref(NewId(h)))

\* the name of an equal font in the Font dictionary, or the font entered in
\* it under the next name
register_font(h, font, page) ==
    LET fonts == Get(h, Get(h, page, "Resources").n, "Font").n
        found == {i \in DOMAIN FontKeys :
                     /\ Has(h, fonts, FontKeys[i])
                     /\ h[Get(h, fonts, FontKeys[i]).n].d = font.d}
        font_index == Cardinality(DOMAIN h[fonts].d) + 1
    IN  IF found # {}
        THEN [h |-> h, name |-> NameN("F", CHOOSE i \in found : \A j \in found : i <= j)]
        ELSE [h |-> SetItem(New(h, font), fonts, FontKeys[font_index], Ref(NewId(h))),
              name |-> NameN("F", font_index)]

_get_font_resource_name(h, font, page) ==
    The({register_font(h2, font, page) :
            h2 \in {ensure_font_dictionary(h1, page) :
                       h1 \in {ensure_resources(h, page)}}})

(***************************************************************************)
(* FormField._get_auto_generated_field_name(page): a field name that no    *)
(* field of the page's document has.                                       *)
(***************************************************************************)
field_names(h, catalog) ==
    IF Has(h, catalog, "AcroForm")
    THEN LET fields == h[Get(h, Get(h, catalog, "AcroForm").n, "Fields").n].l
         IN  {Get(h, fields[i].n, "T") : i \in DOMAIN fields}
    ELSE {}

_get_auto_generated_field_name(h, page) ==
    LET catalog == Get(h, Get(h, Get(h, get_root(h, page), "XRef").n, "Trailer").n, "Root").n
    IN  The({StringF("field-%03d",
                     <<CHOOSE i \in 0 .. Cardinality(taken) :
                          /\ StringF("field-%03d", <<i>>) \notin taken
                          /\ \A j \in 0 .. (i - 1) :
                                StringF("field-%03d", <<j>>) \in taken>>) :
                taken \in {field_names(h, catalog)}})

(***************************************************************************)
(* TextField: the attributes set by __init__.  _field_name is <<>> for     *)
(* None and <<s>> for the string s.                                        *)
(***************************************************************************)
NoField == [status |-> "none", _font_size |-> 0, _font_color |-> <<0, 0, 0>>,
            _value |-> "", _default_value |-> "", _field_name |-> <<>>,
            _widget_dictionary |-> None]

\* Color.to_rgb() of the font colours used: red, green, blue in thousandths
to_rgb(color) == color

\* TextField._get_content_box(available_space)
Rectangle(x, y, width, height) == [x |-> x, y |-> y, width |-> width, height |-> height]

Max(a, b) == IF a >= b THEN a ELSE b

\* font_size * Decimal(1.2)
line_height(font_size) == (font_size * 12) \div 10

\* the width taken as it comes
_get_content_box_no_floor(fld, available_space) ==
    Rectangle(available_space.x,
              available_space.y + available_space.height - line_height(fld._font_size),
              available_space.width,
              line_height(fld._font_size))

_get_content_box(fld, available_space) ==
    Rectangle(available_space.x,
              available_space.y + available_space.height - line_height(fld._font_size),
              Max(available_space.width, Pt(64)),
              line_height(fld._font_size))

(***************************************************************************)
(* TextField._init_widget_dictionary(page, layout_box).  The result is the *)
(* heap after the call, the field's _widget_dictionary after it, and the   *)
(* exception the call raised ("" when it returned).  Objects the call      *)
(* made that nothing refers to when it raises are not kept.                *)
(***************************************************************************)
\* b"/Tx BMC EMC"
TxPayload == <<47, 84, 120, 32, 66, 77, 67, 32, 69, 77, 67>>

(***************************************************************************)
(* zlib.compress(data, 9) for data that is short and has no run of three   *)
(* bytes twice, as the payload: the zlib header, one final deflate block   *)
(* of literals in the fixed Huffman code, and the Adler-32 of the data.    *)
(***************************************************************************)
\* the len bits of code, the highest first
CodeBits(code, len) == [i \in 1 .. len |-> (code \div (2 ^ (len - i))) % 2]

\* the literal written as its own eight bits
LiteralBits_plain(b) == CodeBits(b, 8)

\* the fixed Huffman code of a literal byte
LiteralBits(b) == IF b < 144 THEN CodeBits(48 + b, 8) ELSE CodeBits(400 + (b - 144), 9)

RECURSIVE DataBits(_)
DataBits(data) ==
    IF data = <<>> THEN <<>> ELSE LiteralBits(Head(data)) \o DataBits(Tail(data))

\* BFINAL = 1, BTYPE = 01, the literals, the end-of-block code
BlockBits(data) == <<1, 1, 0>> \o DataBits(data) \o CodeBits(0, 7)

\* bits to bytes, the lowest bit of a byte first, the last byte filled with 0
PackBits(bits) ==
    [j \in 1 .. ((Len(bits) + 7) \div 8) |->
        LET bit(i) == IF 8 * (j - 1) + i <= Len(bits) THEN bits[8 * (j - 1) + i] ELSE 0
        IN  bit(1) + 2 * bit(2) + 4 * bit(3) + 8 * bit(4)
              + 16 * bit(5) + 32 * bit(6) + 64 * bit(7) + 128 * bit(8)]

RECURSIVE Adler(_, _, _)
Adler(data, a, b) ==
    IF data = <<>> THEN <<b \div 256, b % 256, a \div 256, a % 256>>
    ELSE Adler(Tail(data), (a + Head(data)) % 65521, (b + a + Head(data)) % 65521)

zlib_compress(data) ==
    The({<<120, 218>> \o PackBits(bits) \o Adler(data, 1, 0) : bits \in {BlockBits(data)}})

\* the guard lost: every pass synthesises
never_initialized(fld) == FALSE

\* self._widget_dictionary is not None
already_initialized(fld) == fld._widget_dictionary # None

\* the XRef looked for in the page itself
has_xref_in_page(h, page) == Has(h, page, "XRef")

\* "XRef" in page.get_root()
has_xref(h, page) == Has(h, get_root(h, page), "XRef")

\* the page's Resources taken for its Font dictionary
page_resources(h, page) == Get(h, page, "Resources")

\* page["Resources"]["Font"]
page_font_dictionary(h, page) == Get(h, Get(h, page, "Resources").n, "Font")

\* the items appended to the new BBox
bbox_items(layout_box, font_size) ==
    << bDecimal(0), bDecimal(0), bDecimal(layout_box.width), bDecimal(font_size) >>

\* the items appended to the new Rect
rect_items(layout_box, font_size) ==
    << bDecimal(layout_box.x),
       bDecimal(layout_box.y + layout_box.height - font_size),
       bDecimal(layout_box.x + layout_box.width),
       bDecimal(layout_box.y + layout_box.height) >>

\* the P entry of the new widget dictionary
widget_P(catalog, page) == Ref(catalog)

\* widget resource dictionary, widget normal appearance with its BBox, widget
\* appearance dictionary: four new objects, in this order
new_appearance(h, fld, page, layout_box) ==
    LET widget_resources == NewId(h)
        widget_normal_appearance == NewId(h) + 1
        BBox == NewId(h) + 2
    IN  h \o << WithEntries(set_is_unique(Dictionary, TRUE),
                    [Font |-> page_font_dictionary(h, page)]),
                WithEntries(set_is_unique(Stream, TRUE),
                    [Type |-> Name("XObject"),
                     Subtype |-> Name("Form"),
                     BBox |-> Ref(BBox),
                     Resources |-> Ref(widget_resources),
                     DecodedBytes |-> Bytes(TxPayload),
                     Bytes |-> Bytes(zlib_compress(TxPayload)),
                     Filter |-> Name("FlateDecode"),
                     Length |-> bDecimal(Len(zlib_compress(TxPayload)))]),
                [set_is_inline(List, TRUE) EXCEPT
                     !.l = bbox_items(layout_box, fld._font_size)],
                WithEntries(set_is_unique(Dictionary, TRUE),
                    [N |-> Ref(widget_normal_appearance)]) >>

\* page.get_root()["XRef"]["Trailer"]["Root"] can be read
has_catalog(h, page) ==
    LET xref == Get(h, get_root(h, page), "XRef").n
    IN  Has(h, xref, "Trailer") /\ Has(h, Get(h, xref, "Trailer").n, "Root")

get_catalog(h, page) ==
    Get(h, Get(h, Get(h, get_root(h, page), "XRef").n, "Trailer").n, "Root").n

\* the colour written blue first
default_appearance_bgr(font_color_rgb, font_resource_name, font_size) ==
    StringF("%f %f %f rg /%s %f Tf",
            << bDecimal(font_color_rgb[3]), bDecimal(font_color_rgb[2]),
               bDecimal(font_color_rgb[1]), font_resource_name, bDecimal(font_size) >>)

\* rendering instructions: the string of the DA entry
default_appearance(font_color_rgb, font_resource_name, font_size) ==
    StringF("%f %f %f rg /%s %f Tf",
            << bDecimal(font_color_rgb[1]), bDecimal(font_color_rgb[2]),
               bDecimal(font_color_rgb[3]), font_resource_name, bDecimal(font_size) >>)

\* widget dictionary and rendering instructions: the widget and its Rect, two
\* new objects
new_widget(h, fld, page, layout_box, font_resource_name, widget_resources) ==
    LET widget_appearance_dictionary == widget_resources + 3
        Rect == NewId(h) + 1
        font_color_rgb == to_rgb(fld._font_color)
    IN  h \o << WithEntries(set_is_unique(Dictionary, TRUE),
                    [Type |-> Name("Annot"),
                     Subtype |-> Name("Widget"),
                     F |-> bDecimal(4),
                     Rect |-> Ref(Rect),
                     FT |-> Name("Tx"),
                     P |-> widget_P(get_catalog(h, page), page),
                     T |-> IF fld._field_name \notin {<<>>, <<"">>}
                           THEN String(fld._field_name[1])
                           ELSE _get_auto_generated_field_name(h, page),
                     V |-> String(fld._value),
                     DV |-> String(fld._default_value),
                     DR |-> Ref(widget_resources),
                     DA |-> default_appearance(font_color_rgb, font_resource_name,
                                               fld._font_size),
                     AP |-> Ref(widget_appearance_dictionary)]),
                [set_is_inline(List, TRUE) EXCEPT
                     !.l = rect_items(layout_box, fld._font_size)] >>

\* the widget put at the front of the list
append_to_annots_at_front(h, page, widget) ==
    IF Has(h, page, "Annots")
    THEN [h EXCEPT ![Get(h, page, "Annots").n].l = <<Ref(widget)>> \o @]
    ELSE SetItem(New(h, [List EXCEPT !.l = <<Ref(widget)>>]),
                 page, "Annots", Ref(NewId(h)))

\* append field to page /Annots
append_to_annots(h, page, widget) ==
    IF Has(h, page, "Annots")
    THEN AppendItem(h, Get(h, page, "Annots").n, Ref(widget))
    ELSE SetItem(New(h, [List EXCEPT !.l = <<Ref(widget)>>]),
                 page, "Annots", Ref(NewId(h)))

\* an AcroForm made by every attachment, in place of the one there is
append_to_catalog_replacing(h, catalog, widget, widget_resources) ==
    SetItem(h \o << WithEntries(Dictionary,
                        [Fields |-> Ref(NewId(h) + 1),
                         DR |-> Ref(widget_resources),
                         NeedAppearances |-> Boolean(TRUE)]),
                    [List EXCEPT !.l = <<Ref(widget)>>] >>,
            catalog, "AcroForm", Ref(NewId(h)))

\* append field to catalog
append_to_catalog(h, catalog, widget, widget_resources) ==
    IF Has(h, catalog, "AcroForm")
    THEN AppendItem(h, Get(h, Get(h, catalog, "AcroForm").n, "Fields").n, Ref(widget))
    ELSE SetItem(h \o << WithEntries(Dictionary,
                             [Fields |-> Ref(NewId(h) + 1),
                              DR |-> Ref(widget_resources),
                              NeedAppearances |-> Boolean(TRUE)]),
                         [List EXCEPT !.l = <<Ref(widget)>>] >>,
                 catalog, "AcroForm", Ref(NewId(h)))

\* the synthesis from "get Catalog" on: h is the heap with the appearance,
\* whose first object is widget_resources, and widget is the next new object
synthesise(h, fld, page, layout_box, font_resource_name, widget_resources) ==
    LET widget == NewId(h)
    IN  The({[h |-> append_to_catalog(h7, get_catalog(h7, page), widget, widget_resources),
              w |-> widget, exc |-> ""] :
                h7 \in {append_to_annots(h5, page, widget) :
                           h5 \in {new_widget(h, fld, page, layout_box,
                                              font_resource_name, widget_resources)}}})

\* the statements after the two guards; reg is the heap and the name that
\* _get_font_resource_name has given
init_after_guards(reg, fld, page, layout_box) ==
    The({IF ~has_catalog(h4, page)
         THEN [h |-> reg.h, w |-> None, exc |-> "KeyError"]
         ELSE synthesise(h4, fld, page, layout_box, reg.name, NewId(reg.h)) :
            h4 \in {new_appearance(reg.h, fld, page, layout_box)}})

_init_widget_dictionary(h, fld, page, layout_box) ==
    IF already_initialized(fld)
    THEN [h |-> h, w |-> fld._widget_dictionary, exc |-> ""]
    ELSE IF ~has_xref(h, page)
    THEN [h |-> h, w |-> None, exc |-> ""]
    ELSE The({init_after_guards(reg, fld, page, layout_box) :
                 reg \in {_get_font_resource_name(h, StandardType1Font("Helvetica"),
                                                  page)}})

(***************************************************************************)
(* TextField._paint_content_box(page, available_space)                     *)
(***************************************************************************)
\* the BBox origin moved to the box as well
set_location_moving_origin(h, w, cbox, font_size) ==
    LET BBox == Get(h, Get(h, Get(h, w, "AP").n, "N").n, "BBox").n
        Rect == Get(h, w, "Rect").n
        h0 == SetIndex(SetIndex(h, BBox, 0, bDecimal(cbox.x)), BBox, 1, bDecimal(cbox.y))
        h1 == SetIndex(h0, BBox, 2, bDecimal(cbox.width))
        h2 == SetIndex(h1, BBox, 3, bDecimal(font_size))
        h3 == SetIndex(h2, Rect, 0, bDecimal(cbox.x))
        h4 == SetIndex(h3, Rect, 1, bDecimal(cbox.y))
        h5 == SetIndex(h4, Rect, 2, bDecimal(cbox.x + cbox.width))
    IN  SetIndex(h5, Rect, 3, bDecimal(cbox.y + cbox.height))

\* a new Rect made in every pass
set_location_new_rect(h, w, cbox, font_size) ==
    LET BBox == Get(h, Get(h, Get(h, w, "AP").n, "N").n, "BBox").n
        h1 == SetIndex(h, BBox, 2, bDecimal(cbox.width))
        h2 == SetIndex(h1, BBox, 3, bDecimal(font_size))
    IN  SetItem(New(h2, [set_is_inline(List, TRUE) EXCEPT
                           !.l = << bDecimal(cbox.x), bDecimal(cbox.y),
                                    bDecimal(cbox.x + cbox.width),
                                    bDecimal(cbox.y + cbox.height) >>]),
                w, "Rect", Ref(NewId(h2)))

\* the BBox as high as the content box
set_location_leaded(h, w, cbox, font_size) ==
    LET BBox == Get(h, Get(h, Get(h, w, "AP").n, "N").n, "BBox").n
        Rect == Get(h, w, "Rect").n
        h1 == SetIndex(h, BBox, 2, bDecimal(cbox.width))
        h2 == SetIndex(h1, BBox, 3, bDecimal(cbox.height))
        h3 == SetIndex(h2, Rect, 0, bDecimal(cbox.x))
        h4 == SetIndex(h3, Rect, 1, bDecimal(cbox.y))
        h5 == SetIndex(h4, Rect, 2, bDecimal(cbox.x + cbox.width))
    IN  SetIndex(h5, Rect, 3, bDecimal(cbox.y + cbox.height))

\* the location left as the synthesis set it
set_location_kept(h, w, cbox, font_size) == h

\* set location: the assignments to the BBox and the Rect of widget w
set_location(h, w, cbox, font_size) ==
    LET BBox == Get(h, Get(h, Get(h, w, "AP").n, "N").n, "BBox").n
        Rect == Get(h, w, "Rect").n
        h1 == SetIndex(h, BBox, 2, bDecimal(cbox.width))
        h2 == SetIndex(h1, BBox, 3, bDecimal(font_size))
        h3 == SetIndex(h2, Rect, 0, bDecimal(cbox.x))
        h4 == SetIndex(h3, Rect, 1, bDecimal(cbox.y))
        h5 == SetIndex(h4, Rect, 2, bDecimal(cbox.x + cbox.width))
    IN  SetIndex(h5, Rect, 3, bDecimal(cbox.y + cbox.height))

_paint_content_box(h, fld, page, available_space) ==
    \* cbox: determine layout rectangle; init: init self._widget_dictionary
    The({The({IF init.exc # "" \/ init.w = None
              THEN init
              ELSE [h |-> set_location(init.h, init.w, cbox, fld._font_size),
                    w |-> init.w, exc |-> ""] :
                 init \in {_init_widget_dictionary(h, fld, page, cbox)}}) :
            cbox \in {_get_content_box(fld, available_space)}})

(***************************************************************************)
(* Inputs of the operations.                                               *)
(***************************************************************************)
FontSizes == {-Pt(1), Pt(12)}
FieldNames == {<<>>, <<"">>, <<"name">>}
FontColors == {<<0, 0, 0>>}
Values == {"v"}
DefaultValues == {"dv"}
Spaces == {Rectangle(0, 0, Pt(200), Pt(50)),
           Rectangle(Pt(10), Pt(20), Pt(10), Pt(50))}

NoSpace == Rectangle(0, 0, 0, 0)

(***************************************************************************)
(* State: heap is the object graph and field the TextField objects, in     *)
(* the order of their construction.  The other variables record the        *)
(* history: synth[f] is the number of widget dictionaries made for field f *)
(* so far, deferred[f] whether a pass on a page without XRef has left      *)
(* field f without widget, and last is the latest call: its operation,     *)
(* arguments, exception and returned box.                                  *)
(***************************************************************************)
Init ==
    /\ heap = InitHeap
    /\ field = [f \in Fields |-> NoField]
    /\ synth = [f \in Fields |-> 0]
    /\ deferred = [f \in Fields |-> FALSE]
    /\ last = [op |-> "", f |-> 0, font_size |-> 0, page |-> None,
               space |-> NoSpace, exc |-> "", ret |-> NoSpace]

\* a font size of 0 refused
font_size_positive(font_size) == font_size > 0

\* assert font_size >= 0
font_size_accepted(font_size) == font_size >= 0

\* TextField.__init__(default_value, field_name, font_color, font_size, ..., value)
TextField(f, default_value, field_name, font_color, font_size, value) ==
    /\ field[f].status = "none"
    /\ \A g \in Fields : g < f => field[g].status # "none"
    /\ IF font_size_accepted(font_size)
       THEN /\ field' = [field EXCEPT ![f] =
                           [status |-> "constructed",
                            _font_size |-> font_size,
                            _font_color |-> font_color,
                            _value |-> value,
                            _default_value |-> default_value,
                            _field_name |-> field_name,
                            _widget_dictionary |-> None]]
            /\ last' = [op |-> "__init__", f |-> f, font_size |-> font_size,
                        page |-> None, space |-> NoSpace, exc |-> "", ret |-> NoSpace]
       ELSE /\ field' = [field EXCEPT ![f].status = "failed"]
            /\ last' = [op |-> "__init__", f |-> f, font_size |-> font_size,
                        page |-> None, space |-> NoSpace, exc |-> "AssertionError",
                        ret |-> NoSpace]
    /\ UNCHANGED <<heap, synth, deferred>>

\* a layout pass: field f is painted on the page in the available space
PaintContentBox(f, page, available_space) ==
    /\ field[f].status = "constructed"
    /\ \E r \in {_paint_content_box(heap, field[f], page, available_space)} :
           /\ heap' = r.h
           /\ field' = [field EXCEPT ![f]._widget_dictionary = r.w]
           /\ synth' = [synth EXCEPT ![f] =
                           IF r.w # field[f]._widget_dictionary THEN @ + 1 ELSE @]
           /\ deferred' = [deferred EXCEPT ![f] =
                           @ \/ (r.w = None /\ ~Has(heap, get_root(heap, page), "XRef"))]
           /\ last' = [op |-> "_paint_content_box", f |-> f,
                       font_size |-> field[f]._font_size, page |-> page,
                       space |-> available_space, exc |-> r.exc, ret |-> NoSpace]

\* a call of _get_content_box on its own
GetContentBox(f, available_space) ==
    /\ field[f].status = "constructed"
    /\ last' = [op |-> "_get_content_box", f |-> f,
                font_size |-> field[f]._font_size, page |-> None,
                space |-> available_space, exc |-> "",
                ret |-> _get_content_box(field[f], available_space)]
    /\ UNCHANGED <<heap, field, synth, deferred>>

Next ==
    \/ \E f \in Fields, default_value \in DefaultValues, field_name \in FieldNames,
          font_color \in FontColors, font_size \in FontSizes, value \in Values :
          TextField(f, default_value, field_name, font_color, font_size, value)
    \/ \E f \in Fields, page \in Pages, available_space \in Spaces :
          PaintContentBox(f, page, available_space)

Spec == Init /\ [][Next]_vars

(***************************************************************************)
(* The constructor and the content box on their own, over more font sizes  *)
(* and more available spaces; the passes run on the first page of the      *)
(* document only.                                                          *)
(***************************************************************************)
BoxFontSizes == {-Pt(12), -5, 0, 5, Pt(10), Pt(12)}
BoxSpaces == {Rectangle(x, y, width, Pt(50)) :
                 x \in {0, Pt(10)}, y \in {Pt(20)},
                 width \in {0, Pt(10), Pt(64) - 1, Pt(64), Pt(64) + 1, Pt(200)}}

NextBox ==
    \/ \E f \in Fields, font_size \in BoxFontSizes :
          TextField(f, "dv", <<>>, <<0, 0, 0>>, font_size, "v")
    \/ \E f \in Fields, available_space \in BoxSpaces :
          GetContentBox(f, available_space)
    \/ \E f \in Fields :
          PaintContentBox(f, DocPage(1), Rectangle(0, 0, Pt(200), Pt(50)))

SpecBox == Init /\ [][NextBox]_vars

(***************************************************************************)
(* The constructor over font colours and font sizes, and the passes on the *)
(* pages of the document in one space.                                     *)
(***************************************************************************)
DAFontColors == {<<0, 0, 0>>, <<1000, 500, 0>>}
DAFontSizes == {-Pt(1), 0, Pt(12)}

NextDA ==
    \/ \E f \in Fields, font_color \in DAFontColors, font_size \in DAFontSizes :
          TextField(f, "dv", <<>>, font_color, font_size, "v")
    \/ \E f \in Fields, page \in DocPages :
          PaintContentBox(f, page, Rectangle(0, 0, Pt(200), Pt(50)))

SpecDA == Init /\ [][NextDA]_vars

(***************************************************************************)
(* Reading the object graph.                                               *)
(***************************************************************************)
W(f) == field[f]._widget_dictionary

Synthesised == {f \in Fields : W(f) # None}

\* the items of the List under key of node i, none when the key is absent
ListOf(h, i, key) == IF Has(h, i, key) THEN h[Get(h, i, key).n].l ELSE <<>>

Annots(h, page) == ListOf(h, page, "Annots")

AcroFields(h) ==
    IF Has(h, CatalogId, "AcroForm")
    THEN ListOf(h, Get(h, CatalogId, "AcroForm").n, "Fields")
    ELSE <<>>

Occurrences(seq, v) == Cardinality({i \in DOMAIN seq : seq[i] = v})

\* the places (page, index) of widget w in the Annots lists of the pages
AnnotPlaces(h, w) ==
    UNION {{<<page, i>> : i \in {j \in DOMAIN Annots(h, page) :
                                    Annots(h, page)[j] = Ref(w)}} : page \in Pages}

\* the pages whose Annots list holds widget w
OwningPages(h, w) == {page \in Pages : Occurrences(Annots(h, page), Ref(w)) > 0}

WidgetNodes(h) ==
    {i \in DOMAIN h : Has(h, i, "Subtype") /\ Get(h, i, "Subtype") = Name("Widget")}

\* the nodes of widget w
NormalAppearance(h, w) == Get(h, Get(h, w, "AP").n, "N").n
BBoxOf(h, w) == Get(h, NormalAppearance(h, w), "BBox").n
RectOf(h, w) == Get(h, w, "Rect").n
ResourcesOf(h, w) == Get(h, NormalAppearance(h, w), "Resources").n

\* the page's root has the XRef, the Trailer and the Root the synthesis reads
Attachable(h, page) ==
    LET root == get_root(h, page)
    IN  /\ Has(h, root, "XRef")
        /\ Has(h, Get(h, root, "XRef").n, "Trailer")
        /\ Has(h, Get(h, Get(h, root, "XRef").n, "Trailer").n, "Root")

Painted == last.op = "_paint_content_box"

(***************************************************************************)
(* C1.  Whatever passes have run, at most one widget dictionary has been   *)
(* made for a field, and a field's widget occurs exactly once in the       *)
(* Annots lists of the pages and exactly once in the Fields list of the    *)
(* catalog's AcroForm; the graph holds one widget node per synthesised     *)
(* field.                                                                  *)
(***************************************************************************)
C1_OneWidgetOnce ==
    /\ \A f \in Fields :
          /\ synth[f] <= 1
          /\ (W(f) = None) <=> (synth[f] = 0)
          /\ W(f) # None =>
                /\ Cardinality(AnnotPlaces(heap, W(f))) = 1
                /\ Occurrences(AcroFields(heap), Ref(W(f))) = 1
    /\ Cardinality(WidgetNodes(heap)) = Cardinality(Synthesised)
    /\ \A f, g \in Synthesised : f # g => W(f) # W(g)

\* a field that has its widget was painted again, on another page of the document
C1_Witness ==
    \E f \in Synthesised :
       /\ Painted /\ last.f = f /\ last.exc = ""
       /\ last.page \in DocPages
       /\ last.page \notin OwningPages(heap, W(f))

(***************************************************************************)
(* C2.  A pass on a page that is not attachable (its root has no XRef, or  *)
(* an XRef without Trailer or Root) leaves a field without widget as it    *)
(* is; a pass on an attachable page makes the widget of a                  *)
(* field that has none, and that is the only widget ever made for it: no   *)
(* pass changes the widget of a field that has one.                        *)
(***************************************************************************)
C2_DeferredThenOnce ==
    [][Painted' =>
         LET f == last'.f
             page == last'.page
         IN  /\ synth'[f] <= 1
             /\ (W(f) = None /\ ~Attachable(heap, page)) =>
                    /\ field'[f]._widget_dictionary = None
                    /\ synth'[f] = 0
             /\ (W(f) = None /\ Attachable(heap, page)) =>
                    /\ field'[f]._widget_dictionary # None
                    /\ synth[f] = 0 /\ synth'[f] = 1
             /\ W(f) # None =>
                    /\ field'[f]._widget_dictionary = W(f)
                    /\ synth'[f] = synth[f]]_vars

\* a field was left without widget by a pass on the loose page, got its widget
\* later, and was painted on the loose page again
C2_Witness ==
    \E f \in Synthesised :
       /\ deferred[f] /\ synth[f] = 1
       /\ Painted /\ last.f = f /\ last.page = LoosePage

(***************************************************************************)
(* C3 (as claimed).  A pass for a field without widget on a page that is   *)
(* not attachable (its root has no XRef, or an XRef without Trailer or     *)
(* Root) raises nothing and changes nothing: the field stays without       *)
(* widget and the object graph (the page's Resources and Annots, the       *)
(* catalog) is what it was.                                                *)
(***************************************************************************)
C3_NotAttachableNoEffect ==
    [][(Painted' /\ W(last'.f) = None /\ ~Attachable(heap, last'.page)) =>
          /\ last'.exc = ""
          /\ field'[last'.f]._widget_dictionary = None
          /\ heap' = heap]_vars

(***************************************************************************)
(* C4.  Once a field has its widget, every later state has the same        *)
(* widget dictionary for it, with the same AP dictionary, the same normal  *)
(* appearance stream, the same Rect and BBox lists and the same resources  *)
(* dictionary (as Resources of the stream and as DR of the widget).        *)
(***************************************************************************)
C4_IdentitiesKept ==
    [][\A f \in Fields : W(f) # None =>
          LET w == W(f)
          IN  /\ field'[f]._widget_dictionary = w
              /\ Get(heap', w, "AP") = Get(heap, w, "AP")
              /\ NormalAppearance(heap', w) = NormalAppearance(heap, w)
              /\ RectOf(heap', w) = RectOf(heap, w)
              /\ BBoxOf(heap', w) = BBoxOf(heap, w)
              /\ ResourcesOf(heap', w) = ResourcesOf(heap, w)
              /\ Get(heap', w, "DR") = Get(heap, w, "DR")
              /\ \A i \in {w, Get(heap, w, "AP").n, NormalAppearance(heap, w),
                           RectOf(heap, w), BBoxOf(heap, w), ResourcesOf(heap, w)} :
                    /\ heap'[i].kind = heap[i].kind
                    /\ heap'[i].unique = heap[i].unique
                    /\ heap'[i].inline = heap[i].inline]_vars

\* a field that has its widget was painted on the loose page
C4_Witness ==
    \E f \in Synthesised :
       /\ Painted /\ last.f = f /\ last.exc = ""
       /\ last.page = LoosePage
       /\ heap[RectOf(heap, W(f))].kind = "list"
       /\ heap[NormalAppearance(heap, W(f))].kind = "stream"

(***************************************************************************)
(* C5.  A pass for a field that has its widget changes nothing but items   *)
(* 2 and 3 of the BBox and the four items of the Rect: every other node of *)
(* the object graph (the widget with V, DV, T, DR, DA, FT, F, P, AP, the   *)
(* stream, the Annots lists, the catalog and its AcroForm) and items 0 and *)
(* 1 of the BBox are what they were, no node is made, and the field's      *)
(* attributes are what they were.                                          *)
(***************************************************************************)
C5_ReLayoutFrame ==
    [][(Painted' /\ W(last'.f) # None) =>
          LET w == W(last'.f)
              BBox == BBoxOf(heap, w)
              Rect == RectOf(heap, w)
          IN  /\ field' = field
              /\ DOMAIN heap' = DOMAIN heap
              /\ \A i \in DOMAIN heap : i \notin {BBox, Rect} => heap'[i] = heap[i]
              /\ heap'[BBox] = [heap[BBox] EXCEPT !.l[3] = heap'[BBox].l[3],
                                                  !.l[4] = heap'[BBox].l[4]]
              /\ heap'[Rect] = [heap[Rect] EXCEPT !.l = heap'[Rect].l]
              /\ Len(heap'[Rect].l) = 4]_vars

\* a field that has its widget was painted on the page below the bare root
C5_Witness ==
    \E f \in Synthesised :
       /\ Painted /\ last.f = f /\ last.exc = ""
       /\ last.page = BarePage
       /\ heap[RectOf(heap, W(f))].l[1] = bDecimal(last.space.x)

\* two fields whose widgets are in the Annots list of one page
OnePage(f, g) ==
    /\ f # g /\ W(f) # None /\ W(g) # None
    /\ OwningPages(heap, W(f)) \cap OwningPages(heap, W(g)) # {}

C7_PIsOwningPage ==
    \A f \in Synthesised :
       \A page \in OwningPages(heap, W(f)) : Get(heap, W(f), "P") = Ref(page)

(***************************************************************************)
(* C8.  After a pass for a field with font size fs in the available space  *)
(* (x, y, w, h) that leaves the field with its widget, the Rect is         *)
(* [x, y + h - 1.2 fs, x + max(w, 64), y + h] and the BBox is              *)
(* [0, 0, max(w, 64), fs]: the BBox is as high as the font, not as the     *)
(* line.                                                                   *)
(***************************************************************************)
C8_Geometry ==
    (Painted /\ last.exc = "" /\ W(last.f) # None) =>
       LET w == W(last.f)
           fs == field[last.f]._font_size
           sp == last.space
           width == IF sp.width < 640 THEN 640 ELSE sp.width
       IN  /\ heap[RectOf(heap, w)].l =
                 << bDecimal(sp.x), bDecimal(sp.y + sp.height - (12 * fs) \div 10),
                    bDecimal(sp.x + width), bDecimal(sp.y + sp.height) >>
           /\ heap[BBoxOf(heap, w)].l =
                 << bDecimal(0), bDecimal(0), bDecimal(width), bDecimal(fs) >>

\* the space (0, 0, 200, 50) and the font size 12, on the pass that synthesises
\* and on a later pass
C8_Witness ==
    /\ Painted /\ last.exc = "" /\ W(last.f) # None
    /\ last.space = Rectangle(0, 0, 2000, 500)
    /\ field[last.f]._font_size = 120
    /\ heap[RectOf(heap, W(last.f))].l =
          << bDecimal(0), bDecimal(356), bDecimal(2000), bDecimal(500) >>
    /\ heap[BBoxOf(heap, W(last.f))].l =
          << bDecimal(0), bDecimal(0), bDecimal(2000), bDecimal(120) >>
    /\ last.page \notin OwningPages(heap, W(last.f))

(***************************************************************************)
(* C9.  _get_content_box returns, for the available space (x, y, w, h) and *)
(* the font size fs, the box (x, y + h - 1.2 fs, max(w, 64), 1.2 fs), and  *)
(* the call changes neither the object graph nor a field.                  *)
(***************************************************************************)
C9_ContentBox ==
    /\ [](last.op = "_get_content_box" =>
            LET fs == field[last.f]._font_size
                sp == last.space
            IN  /\ last.ret.x = sp.x
                /\ 10 * (last.ret.y - sp.y - sp.height) = -12 * fs
                /\ last.ret.width >= 640 /\ last.ret.width >= sp.width
                /\ last.ret.width \in {640, sp.width}
                /\ 10 * last.ret.height = 12 * fs)
    /\ [][last'.op = "_get_content_box" => (heap' = heap /\ field' = field)]_vars

\* a width of 10 gives 64, and a width above 64 is kept
C9_Witness ==
    /\ last.op = "_get_content_box"
    /\ last.space.width = 100 /\ last.ret.width = 640
    /\ field[last.f]._font_size = 120 /\ last.ret.height = 144
    /\ \E f \in Fields : W(f) # None

(***************************************************************************)
(* C10.  A constructor call with a font size below 0 raises and gives no   *)
(* field; one with a font size of 0 or more gives a field with that font   *)
(* size and no widget dictionary.  No pass raises the constructor's        *)
(* assertion, and no field has a font size below 0.                        *)
(***************************************************************************)
C10_FontSizePrecondition ==
    /\ [](\A f \in Fields : field[f].status = "constructed" => field[f]._font_size >= 0)
    /\ [][/\ last'.op = "__init__" =>
               LET f == last'.f
               IN  /\ last'.font_size < 0 =>
                         /\ last'.exc = "AssertionError"
                         /\ field'[f].status = "failed"
                   /\ last'.font_size >= 0 =>
                         /\ last'.exc = ""
                         /\ field'[f].status = "constructed"
                         /\ field'[f]._font_size = last'.font_size
                         /\ field'[f]._widget_dictionary = None
          /\ last'.op # "__init__" => last'.exc # "AssertionError"]_vars

\* one construction failed, one with font size 0 gave a field that was painted
C10_Witness ==
    /\ field[1].status = "failed"
    /\ field[2].status = "constructed" /\ field[2]._font_size = 0
    /\ Painted /\ last.f = 2 /\ last.exc = "" /\ W(2) # None

\* the T entries of the widgets in the Fields list, in the order of the list
FieldNamesOf(h) == [i \in DOMAIN AcroFields(h) |-> Get(h, AcroFields(h)[i].n, "T")]

(***************************************************************************)
(* C11 (as claimed).  The T entries of the widgets in the Fields list of   *)
(* the catalog's AcroForm are pairwise distinct, whether a name was given  *)
(* to the constructor or generated.                                        *)
(***************************************************************************)
C11_NamesDistinct ==
    \A i, j \in DOMAIN FieldNamesOf(heap) :
       i # j => FieldNamesOf(heap)[i] # FieldNamesOf(heap)[j]

(***************************************************************************)
(* zlib.decompress(bytes), the reading of what zlib.compress writes, for a *)
(* stream of one final block in the fixed Huffman code that holds literals *)
(* only.  The result is [ok, data]: ok is FALSE when the header, the       *)
(* block, a code or the Adler-32 is not what a decoder accepts.            *)
(***************************************************************************)
\* the bits of the bytes, the lowest bit of a byte first
UnpackBits(bytes) ==
    [i \in 1 .. 8 * Len(bytes) |->
        (bytes[(i - 1) \div 8 + 1] \div (2 ^ ((i - 1) % 8))) % 2]

\* the number written by the len bits from bits[p] on, the highest first
RECURSIVE CodeAt(_, _, _)
CodeAt(bits, p, len) ==
    IF len = 0 THEN 0 ELSE 2 * CodeAt(bits, p, len - 1) + bits[p + len - 1]

\* the literals from bits[p] on up to the end-of-block code
RECURSIVE InflateFixed(_, _)
InflateFixed(bits, p) ==
    IF p + 6 > Len(bits) THEN [ok |-> FALSE, data |-> <<>>]
    ELSE IF CodeAt(bits, p, 7) = 0 THEN [ok |-> TRUE, data |-> <<>>]
    ELSE IF p + 7 > Len(bits) THEN [ok |-> FALSE, data |-> <<>>]
    ELSE IF CodeAt(bits, p, 8) \in 48 .. 191
    THEN LET rest == InflateFixed(bits, p + 8)
         IN  [ok |-> rest.ok, data |-> <<CodeAt(bits, p, 8) - 48>> \o rest.data]
    ELSE IF p + 8 > Len(bits) THEN [ok |-> FALSE, data |-> <<>>]
    ELSE IF CodeAt(bits, p, 9) \in 400 .. 511
    THEN LET rest == InflateFixed(bits, p + 9)
         IN  [ok |-> rest.ok, data |-> <<CodeAt(bits, p, 9) - 400 + 144>> \o rest.data]
    ELSE [ok |-> FALSE, data |-> <<>>]

zlib_decompress(bytes) ==
    IF \/ Len(bytes) < 7
       \/ bytes[1] % 16 # 8
       \/ (256 * bytes[1] + bytes[2]) % 31 # 0
       \/ (bytes[2] \div 32) % 2 # 0
    THEN [ok |-> FALSE, data |-> <<>>]
    ELSE The({IF bits[1] # 1 \/ bits[2] # 1 \/ bits[3] # 0
              THEN [ok |-> FALSE, data |-> <<>>]
              ELSE The({[ok |-> /\ r.ok
                                /\ SubSeq(bytes, Len(bytes) - 3, Len(bytes))
                                      = Adler(r.data, 1, 0),
                         data |-> r.data] : r \in {InflateFixed(bits, 4)}}) :
                 bits \in {UnpackBits(SubSeq(bytes, 3, Len(bytes) - 4))}})

(***************************************************************************)
(* C12.  In every state, the normal appearance stream of every field that  *)
(* has its widget has the payload "/Tx BMC EMC" as DecodedBytes, Bytes     *)
(* that decompress to that payload, the Filter FlateDecode, and a Length   *)
(* that is the number of the Bytes.                                        *)
(***************************************************************************)
C12_CompressionRoundTrip ==
    \A f \in Synthesised :
       LET N == NormalAppearance(heap, W(f))
       IN  /\ heap[N].kind = "stream"
           /\ Get(heap, N, "DecodedBytes") = Bytes(TxPayload)
           /\ TxPayload = <<47, 84, 120, 32, 66, 77, 67, 32, 69, 77, 67>>
           /\ Get(heap, N, "Bytes").k = "bytes"
           /\ zlib_decompress(Get(heap, N, "Bytes").a) = [ok |-> TRUE, data |-> TxPayload]
           /\ Get(heap, N, "Filter") = Name("FlateDecode")
           /\ Get(heap, N, "Length") = bDecimal(Len(Get(heap, N, "Bytes").a))

\* a field whose stream has the 19 bytes was painted again, in another space
C12_Witness ==
    \E f \in Synthesised :
       /\ Painted /\ last.f = f /\ last.exc = ""
       /\ last.page \notin OwningPages(heap, W(f))
       /\ Get(heap, NormalAppearance(heap, W(f)), "Length") = bDecimal(19)
       /\ heap[RectOf(heap, W(f))].l[1] = bDecimal(Pt(10))
       /\ \E g \in Synthesised : g # f

\* the catalog's AcroForm node, None when the catalog has none
AcroForm(h) ==
    IF Has(h, CatalogId, "AcroForm") THEN Get(h, CatalogId, "AcroForm").n ELSE None

(***************************************************************************)
(* C13.  The catalog has an AcroForm exactly when a field is attached to   *)
(* the document.  The step that makes it is the first attachment, and no   *)
(* later step replaces it: the AcroForm node and its Fields list stay the  *)
(* same nodes, its DR stays the resources dictionary of the widget that    *)
(* was attached first, NeedAppearances stays true, and an attachment       *)
(* appends its widget at the end of Fields, so that Fields holds one entry *)
(* per attached field, in the order of the attachments.                    *)
(***************************************************************************)
C13_AcroFormOnce ==
    /\ [](/\ (AcroForm(heap) # None) <=> (Synthesised # {})
          /\ Len(AcroFields(heap)) = Cardinality(Synthesised)
          /\ \A f \in Synthesised : Occurrences(AcroFields(heap), Ref(W(f))) = 1
          /\ AcroForm(heap) # None =>
                /\ DOMAIN heap[AcroForm(heap)].d = {"Fields", "DR", "NeedAppearances"}
                /\ Get(heap, AcroForm(heap), "NeedAppearances") = Boolean(TRUE)
                /\ Get(heap, AcroForm(heap), "DR")
                      = Get(heap, AcroFields(heap)[1].n, "DR")
                /\ Get(heap, AcroForm(heap), "DR")
                      = Ref(ResourcesOf(heap, AcroFields(heap)[1].n)))
    /\ [][/\ (AcroForm(heap) = None /\ AcroForm(heap') # None) =>
               /\ AcroForm(heap') \notin DOMAIN heap
               /\ Painted' /\ W(last'.f) = None
               /\ AcroFields(heap') = <<Ref(field'[last'.f]._widget_dictionary)>>
          /\ AcroForm(heap) # None =>
               /\ AcroForm(heap') = AcroForm(heap)
               /\ Get(heap', AcroForm(heap), "Fields") = Get(heap, AcroForm(heap), "Fields")
               /\ Get(heap', AcroForm(heap), "DR") = Get(heap, AcroForm(heap), "DR")
               /\ heap'[AcroForm(heap)] = heap[AcroForm(heap)]
               /\ IF Painted' /\ W(last'.f) = None
                     /\ field'[last'.f]._widget_dictionary # None
                  THEN AcroFields(heap')
                          = Append(AcroFields(heap),
                                   Ref(field'[last'.f]._widget_dictionary))
                  ELSE AcroFields(heap') = AcroFields(heap)]_vars

\* the field made second was attached first, on the second page, and the field
\* made first was attached after it, on the first page
C13_Witness ==
    /\ Synthesised = {1, 2}
    /\ AcroFields(heap) = <<Ref(W(2)), Ref(W(1))>>
    /\ OwningPages(heap, W(2)) = {DocPage(2)}
    /\ OwningPages(heap, W(1)) = {DocPage(1)}
    /\ Get(heap, AcroForm(heap), "DR") = Ref(ResourcesOf(heap, W(2)))
    /\ Painted /\ last.f = 1 /\ last.page = DocPage(1)

\* the keys the attachments have entered in the Font dictionary of the page:
\* those it has now and had not at first
RegisteredFonts(h, page) ==
    IF Has(h, page, "Resources") /\ Has(h, Get(h, page, "Resources").n, "Font")
    THEN {key \in DOMAIN h[page_font_dictionary(h, page).n].d :
             ~ /\ page \in DOMAIN InitHeap
               /\ Has(InitHeap, page, "Resources")
               /\ Has(InitHeap, Get(InitHeap, page, "Resources").n, "Font")
               /\ Has(InitHeap, page_font_dictionary(InitHeap, page).n, key)}
    ELSE {}

\* the entry key of the page's Font dictionary is read, the same font, in the
\* Font dictionary of the resources dictionary res
VisibleThrough(h, page, key, res) ==
    /\ Has(h, res, "Font")
    /\ Has(h, Get(h, res, "Font").n, key)
    /\ Get(h, Get(h, res, "Font").n, key) = Get(h, page_font_dictionary(h, page).n, key)

(***************************************************************************)
(* C14 (as claimed).  Every font entry that an attachment has registered   *)
(* in the Font dictionary of a page is visible through the DR of a widget  *)
(* attached to that page, through the Resources of the widget's normal     *)
(* appearance stream, which is the node its DR is, and through the DR of   *)
(* the catalog's AcroForm.                                                 *)
(***************************************************************************)
C14_FontsVisibleToAll ==
    \A f \in Synthesised : \A page \in OwningPages(heap, W(f)) :
       \A key \in RegisteredFonts(heap, page) :
          /\ Get(heap, W(f), "DR") = Ref(ResourcesOf(heap, W(f)))
          /\ VisibleThrough(heap, page, key, Get(heap, W(f), "DR").n)
          /\ VisibleThrough(heap, page, key, ResourcesOf(heap, W(f)))
          /\ VisibleThrough(heap, page, key, Get(heap, AcroForm(heap), "DR").n)

\* seq is the beginning of longer
IsPrefix(seq, longer) ==
    /\ Len(seq) <= Len(longer)
    /\ \A i \in DOMAIN seq : longer[i] = seq[i]

(***************************************************************************)
(* C15.  In every step, every page's Annots list keeps the entries it has, *)
(* each at its index, and stays the same node.  A step that makes the      *)
(* widget of a field appends that widget, once, at the end of the Annots   *)
(* list of the page painted on (a new list when the page had none) and     *)
(* leaves the other pages' lists as they are; any other step leaves every  *)
(* Annots list as it is.                                                   *)
(***************************************************************************)
C15_AnnotsAppendOnly ==
    [][\A page \in Pages :
          /\ IsPrefix(Annots(heap, page), Annots(heap', page))
          /\ Has(heap, page, "Annots") =>
                /\ Has(heap', page, "Annots")
                /\ Get(heap', page, "Annots") = Get(heap, page, "Annots")
          /\ (~Has(heap, page, "Annots") /\ Has(heap', page, "Annots")) =>
                /\ Get(heap', page, "Annots").n \notin DOMAIN heap
                /\ heap'[Get(heap', page, "Annots").n].kind = "list"
          /\ IF /\ Painted' /\ last'.page = page
                /\ W(last'.f) = None
                /\ field'[last'.f]._widget_dictionary # None
             THEN Annots(heap', page)
                     = Append(Annots(heap, page), Ref(field'[last'.f]._widget_dictionary))
             ELSE /\ Annots(heap', page) = Annots(heap, page)
                  /\ Has(heap', page, "Annots") = Has(heap, page, "Annots")]_vars

\* the second page holds its link annotation and, after it, the widgets of
\* the two fields in the order they were attached; the first page, which had
\* no Annots, was painted on last and got none
C15_Witness ==
    /\ Synthesised = {1, 2}
    /\ Annots(heap, DocPage(2)) = <<Ref(DocPage(2) + 5), Ref(W(2)), Ref(W(1))>>
    /\ Painted /\ last.page = DocPage(1)
    /\ ~Has(heap, DocPage(1), "Annots")

(***************************************************************************)
(* C16.  The widget of a field is made by the first pass for the field on  *)
(* an attachable page, whatever pages the field is painted on afterwards,  *)
(* and is appended to the Annots list of that page only.  A later pass for *)
(* the field, on that page or another, adds nothing to any Annots list and *)
(* nothing to the Fields list, and sets the widget's Rect and the width of *)
(* its BBox to the box of the space of that pass.  In every state a widget *)
(* is in the Fields list exactly when it is in the Annots list of exactly  *)
(* one page, which is an attachable page.                                  *)
(***************************************************************************)
C16_KeyedOnField ==
    /\ [](\A w \in WidgetNodes(heap) :
            /\ (Occurrences(AcroFields(heap), Ref(w)) > 0)
                  <=> (Cardinality(OwningPages(heap, w)) = 1)
            /\ Cardinality(AnnotPlaces(heap, w)) = 1
            /\ \E f \in Synthesised : W(f) = w
            /\ \A page \in OwningPages(heap, w) : Attachable(heap, page))
    /\ [][Painted' =>
            LET f == last'.f
                page == last'.page
                sp == last'.space
                fs == field[f]._font_size
                width == IF sp.width < 640 THEN 640 ELSE sp.width
            IN  /\ (W(f) = None /\ Attachable(heap, page)) =>
                      OwningPages(heap', field'[f]._widget_dictionary) = {page}
                /\ W(f) # None =>
                      /\ field'[f]._widget_dictionary = W(f)
                      /\ OwningPages(heap', W(f)) = OwningPages(heap, W(f))
                      /\ \A p \in Pages : Annots(heap', p) = Annots(heap, p)
                      /\ AcroFields(heap') = AcroFields(heap)
                      /\ WidgetNodes(heap') = WidgetNodes(heap)
                      /\ last'.exc = ""
                      /\ heap'[RectOf(heap, W(f))].l =
                            << bDecimal(sp.x),
                               bDecimal(sp.y + sp.height - (12 * fs) \div 10),
                               bDecimal(sp.x + width),
                               bDecimal(sp.y + sp.height) >>
                      /\ heap'[BBoxOf(heap, W(f))].l[3] = bDecimal(width)]_vars

\* a field attached to the first page was painted on the second page in the
\* other space: the second page has its link annotation only, the Fields list
\* the one widget, and the Rect is that of the later pass
C16_Witness ==
    \E f \in Synthesised :
       /\ Painted /\ last.f = f /\ last.page = DocPage(2)
       /\ OwningPages(heap, W(f)) = {DocPage(1)}
       /\ Annots(heap, DocPage(2)) = <<Ref(DocPage(2) + 5)>>
       /\ AcroFields(heap) = <<Ref(W(f))>>
       /\ last.space = Rectangle(Pt(10), Pt(20), Pt(10), Pt(50))
       /\ heap[RectOf(heap, W(f))].l[1] = bDecimal(Pt(10))
       /\ heap[RectOf(heap, W(f))].l[3] = bDecimal(Pt(74))
       /\ heap[BBoxOf(heap, W(f))].l[3] = bDecimal(Pt(64))

(***************************************************************************)
(* C17.  For every field that has its widget, in every state: the DA of    *)
(* the widget is "r g b rg /name size Tf" where name is a key of the Font  *)
(* dictionary of the widget's DR, which is the Font dictionary of the page *)
(* the widget is attached to and holds Helvetica under that key, and r, g, *)
(* b and size are the colour and the font size the field was constructed   *)
(* with; no step changes a field's colour or font size.                    *)
(***************************************************************************)
C17_DefaultAppearance ==
    /\ [](\A f \in Synthesised :
            LET w == W(f)
                DA == Get(heap, w, "DA")
                Font == Get(heap, Get(heap, w, "DR").n, "Font")
            IN  /\ DA.k = "str" /\ DA.s = "%f %f %f rg /%s %f Tf" /\ Len(DA.a) = 5
                /\ DA.a[4].k = "name" /\ DA.a[4].s = "F"
                /\ DA.a[4].n \in DOMAIN FontKeys
                /\ Has(heap, Font.n, FontKeys[DA.a[4].n])
                /\ heap[Get(heap, Font.n, FontKeys[DA.a[4].n]).n].d
                      = StandardType1Font("Helvetica").d
                /\ \A page \in OwningPages(heap, w) :
                      Font = Get(heap, Get(heap, page, "Resources").n, "Font")
                /\ DA.a[1] = bDecimal(field[f]._font_color[1])
                /\ DA.a[2] = bDecimal(field[f]._font_color[2])
                /\ DA.a[3] = bDecimal(field[f]._font_color[3])
                /\ DA.a[5] = bDecimal(field[f]._font_size))
    /\ [][\A f \in Fields : field[f].status = "constructed" =>
            /\ field'[f]._font_color = field[f]._font_color
            /\ field'[f]._font_size = field[f]._font_size]_vars

\* a field of colour (1, 0.5, 0) and size 12 on the second page, where
\* Helvetica is F2, and a field of size 0 on the first, where it is F1; the
\* first was painted again after the second got its widget
C17_Witness ==
    \E f, g \in Synthesised :
       /\ field[f]._font_color = <<1000, 500, 0>> /\ field[f]._font_size = Pt(12)
       /\ OwningPages(heap, W(f)) = {DocPage(2)}
       /\ Get(heap, W(f), "DA").a[4] = NameN("F", 2)
       /\ field[g]._font_size = 0
       /\ OwningPages(heap, W(g)) = {DocPage(1)}
       /\ Get(heap, W(g), "DA").a[4] = NameN("F", 1)
       /\ W(f) < W(g)
       /\ Painted /\ last.f = f /\ last.page = DocPage(1)

====
